---------------------------- MODULE Spec2Model ----------------------------
(***************************************************************************)
(* A model of the estimation engine of estimate-app: the COCOMO II effort  *)
(* calculator (domain.COCOMOEstimate.CalculateEffort and its pow helper),  *)
(* the COCOMO use case (CreateEstimate, UpdateRatings) over an abstract    *)
(* repository, and the project estimate (domain.Estimate) with its         *)
(* activity-based calculation and the reconciliation of the two totals.    *)
(*                                                                         *)
(* float64 values are modelled as exact rationals [n, d] in lowest terms   *)
(* (d > 0): rounding and overflow are outside the model.  TLC integers are *)
(* 32 bits wide, so the inputs are drawn from sets whose results fit.      *)
(***************************************************************************)
EXTENDS Integers, Sequences, FiniteSets, TLC

(***************************************************************************)
(* Exact rational arithmetic standing for float64.                         *)
(***************************************************************************)
RECURSIVE GCD(_, _)
GCD(a, b) == IF b = 0 THEN a ELSE GCD(b, a % b)

Abs(x) == IF x < 0 THEN -x ELSE x

\* The rational n/d (d # 0) in lowest terms with a positive denominator.
Rat(n, d) ==
    LET g == GCD(Abs(n), Abs(d))
        s == IF d < 0 THEN -1 ELSE 1
    IN  [n |-> s * (n \div g), d |-> s * (d \div g)]

Int2R(k) == [n |-> k, d |-> 1]

Zero == Int2R(0)

One == Int2R(1)

RMul(a, b) ==
    LET g1 == GCD(Abs(a.n), b.d)
        g2 == GCD(Abs(b.n), a.d)
    IN  [n |-> (a.n \div g1) * (b.n \div g2), d |-> (a.d \div g2) * (b.d \div g1)]

Sign(x) == IF x < 0 THEN -1 ELSE IF x > 0 THEN 1 ELSE 0

\* a / b.  A float64 division by zero gives NaN (0/0) or an infinity (x/0): these
\* are the values with d = 0, and nothing is computed from them.
RDiv(a, b) ==
    IF b.n = 0 THEN [n |-> Sign(a.n), d |-> 0]
    ELSE RMul(a, IF b.n < 0 THEN [n |-> -b.d, d |-> -b.n] ELSE [n |-> b.d, d |-> b.n])

RAdd(a, b) ==
    LET g == GCD(a.d, b.d)
    IN  Rat(a.n * (b.d \div g) + b.n * (a.d \div g), (a.d \div g) * b.d)

RNeg(a) == [n |-> -a.n, d |-> a.d]

RSub(a, b) == RAdd(a, RNeg(b))

RLess(a, b) == RSub(a, b).n < 0

RLeq(a, b) == RSub(a, b).n <= 0

RMin(a, b) == IF RLess(b, a) THEN b ELSE a

RMax(a, b) == IF RLess(a, b) THEN b ELSE a

\* Go's conversion int(x) of a float64: truncation toward zero.
TruncToInt(x) == IF x.n >= 0 THEN x.n \div x.d ELSE -((-x.n) \div x.d)

(***************************************************************************)
(* Real exponentiation, as a relation between positive rationals:          *)
(* r = base^exp, with exp = p/q (q > 0), holds iff r^q = base^p, iff for   *)
(* every prime k the multiplicities agree: q * v_k(r) = p * v_k(base).     *)
(* The multiplicities are taken over SmallPrimes; what is left of r and of *)
(* base after the small primes are divided out must be 1.                  *)
(***************************************************************************)
SmallPrimes == {2, 3, 5, 7, 11, 13}

RECURSIVE Multiplicity(_, _)
Multiplicity(k, m) == IF m % k = 0 THEN 1 + Multiplicity(k, m \div k) ELSE 0

RECURSIVE StripPrime(_, _)
StripPrime(k, m) == IF m % k = 0 THEN StripPrime(k, m \div k) ELSE m

RECURSIVE StripAll(_, _)
StripAll(ks, m) ==
    IF ks = {} THEN m
    ELSE LET k == CHOOSE x \in ks : TRUE
         IN  StripAll(ks \ {k}, StripPrime(k, m))

Valuation(k, r) == Multiplicity(k, r.n) - Multiplicity(k, r.d)

\* What is left of r once the small primes are divided out.
RoughPart(r) == [n |-> StripAll(SmallPrimes, r.n), d |-> StripAll(SmallPrimes, r.d)]

RECURSIVE IntPow(_, _)
IntPow(b, k) == IF k <= 0 THEN 1 ELSE b * IntPow(b, k - 1)

\* r^q = b^p for positive rationals r, b and integers q > 0, p, by integer powers.
PowersAgree(r, q, b, p) ==
    IF p >= 0
    THEN IntPow(r.n, q) = IntPow(b.n, p) /\ IntPow(r.d, q) = IntPow(b.d, p)
    ELSE IntPow(r.n, q) = IntPow(b.d, -p) /\ IntPow(r.d, q) = IntPow(b.n, -p)

IsRealPow(r, base, exp) ==
    /\ r.n > 0
    /\ base.n > 0
    /\ \A k \in SmallPrimes : exp.d * Valuation(k, r) = exp.n * Valuation(k, base)
    /\ LET rr == RoughPart(r)
           rb == RoughPart(base)
       IN  IF rr = One THEN rb = One \/ exp.n = 0
           ELSE IF rb = One THEN FALSE
           ELSE PowersAgree(rr, exp.d, rb, exp.n)

(***************************************************************************)
(* Bounds of the model.                                                    *)
(***************************************************************************)
\* The largest project size (KSLOC) an estimate is made for.
MaxSize == 2

\* CalculateEffort is applied to one estimate at most MaxEffortCalls times.
MaxEffortCalls == 2

VARIABLES
    catalog,      \* the repository's models, scale factors and cost drivers
    repoShares,   \* whether Find* hands out pointers to the stored objects
    saved,        \* the estimate stored by SaveEstimate (Nil when none)
    result,       \* what the last use-case call returned, and what it called
    cocomo,       \* a COCOMOEstimate under CalculateEffort
    effortCalls,  \* the number of CalculateEffort calls made on cocomo
    projectEstimate, \* a project Estimate under CalculateTotalHours
    calc,         \* what the last CalculateTotalHours returned and computed
    detailed,     \* the last GenerateDetailedResult: its rate and its result
    workers       \* the CreateEstimate computations running side by side

vars == <<catalog, repoShares, saved, result, cocomo, effortCalls, projectEstimate, calc,
         detailed, workers>>

Nil == [nil |-> TRUE]

(***************************************************************************)
(* The catalog: the two models of InitializeDefaultModel, the first two    *)
(* scale factors of InitializeScaleFactors (a freshly seeded Rating is the *)
(* zero value), a nominal cost driver of InitializeCostDrivers and one     *)
(* non-nominal driver stored through SaveCostDriver.                       *)
(***************************************************************************)
DefaultModels ==
    [m1 |-> [ID |-> "m1", A |-> Rat(294, 100), B |-> Rat(91, 100)],
     m2 |-> [ID |-> "m2", A |-> Rat(245, 100), B |-> Rat(91, 100)]]

DefaultScaleFactors ==
    [sf1 |-> [ID |-> "sf1", Weight |-> Rat(405, 100), Rating |-> Zero],
     sf2 |-> [ID |-> "sf2", Weight |-> Rat(304, 100), Rating |-> Zero]]

DefaultCostDrivers ==
    [cd1 |-> [ID |-> "cd1", Value |-> One, Rating |-> Zero],
     cd2 |-> [ID |-> "cd2", Value |-> Rat(14, 10), Rating |-> Zero]]

InitialCatalog ==
    [models |-> DefaultModels,
     scaleFactors |-> DefaultScaleFactors,
     costDrivers |-> DefaultCostDrivers]

(***************************************************************************)
(* domain.COCOMOEstimate and CalculateEffort.                              *)
(***************************************************************************)
\* The struct literal of CreateEstimate: the derived fields are zero.
NewCOCOMOEstimate(size, model, scaleFactors, costDrivers) ==
    [ProjectSize |-> size, Model |-> model,
     ScaleFactors |-> scaleFactors, CostDrivers |-> costDrivers,
     ExponentB |-> Zero, EffortPM |-> Zero, DurationTM |-> Zero, TeamSize |-> Zero]

\* for i := 0; i < int(exp); i++ { result *= base }
\* (a product of powers of one fraction in lowest terms is in lowest terms)
RECURSIVE powLoop(_, _, _, _)
powLoop(acc, base, i, n) ==
    IF i < n
    THEN powLoop([n |-> acc.n * base.n, d |-> acc.d * base.d], base, i + 1, n)
    ELSE acc

pow(base, exp) == powLoop(One, base, 0, TruncToInt(exp))

\* The number of times the body of pow's loop runs.
RECURSIVE powSteps(_, _)
powSteps(i, n) == IF i < n THEN 1 + powSteps(i + 1, n) ELSE 0

powIterations(exp) == powSteps(0, TruncToInt(exp))

\* A slip: e.ExponentB += e.Model.B, the previous exponent kept.
ExponentStartAccumulating(e) == RAdd(e.ExponentB, e.Model.B)

\* e.ExponentB = e.Model.B
ExponentStart(e) == e.Model.B

\* A slip: e.ExponentB = sf.Weight * sf.Rating, the last scale factor alone.
RECURSIVE AddScaleFactorsAssigning(_, _, _)
AddScaleFactorsAssigning(acc, sfs, i) ==
    IF i > Len(sfs) THEN acc
    ELSE AddScaleFactorsAssigning(RMul(sfs[i].Weight, sfs[i].Rating), sfs, i + 1)

\* for _, sf := range e.ScaleFactors { e.ExponentB += sf.Weight * sf.Rating }
RECURSIVE AddScaleFactors(_, _, _)
AddScaleFactors(acc, sfs, i) ==
    IF i > Len(sfs) THEN acc
    ELSE AddScaleFactors(RAdd(acc, RMul(sfs[i].Weight, sfs[i].Rating)), sfs, i + 1)

\* A slip: the multiplier scaled by the driver's Rating.
RECURSIVE EffortMultiplierRated(_, _, _)
EffortMultiplierRated(acc, cds, i) ==
    IF i > Len(cds) THEN acc
    ELSE EffortMultiplierRated(RMul(acc, RMul(cds[i].Value, cds[i].Rating)), cds, i + 1)

\* em := 1.0; for _, cd := range e.CostDrivers { em *= cd.Value }
RECURSIVE EffortMultiplier(_, _, _)
EffortMultiplier(acc, cds, i) ==
    IF i > Len(cds) THEN acc
    ELSE EffortMultiplier(RMul(acc, cds[i].Value), cds, i + 1)

\* c := 3.67
DurationC == Rat(367, 100)

\* d := 0.28 + 0.2 * (e.ExponentB - 1.01)
DurationD(exponentB) ==
    RAdd(Rat(28, 100), RMul(Rat(2, 10), RSub(exponentB, Rat(101, 100))))

\* A slip: the operands of the division swapped.
AverageTeamSizeSwapped(effortPM, durationTM) == RDiv(durationTM, effortPM)

\* e.TeamSize = e.EffortPM / e.DurationTM
AverageTeamSize(effortPM, durationTM) == RDiv(effortPM, durationTM)

CalculateEffort(e) ==
    LET exponentB == AddScaleFactors(ExponentStart(e), e.ScaleFactors, 1)
        em == EffortMultiplier(One, e.CostDrivers, 1)
        effortPM == RMul(RMul(e.Model.A, pow(e.ProjectSize, exponentB)), em)
        durationTM == RMul(DurationC, pow(effortPM, DurationD(exponentB)))
    IN  [e EXCEPT !.ExponentB = exponentB,
                  !.EffortPM = effortPM,
                  !.DurationTM = durationTM,
                  !.TeamSize = AverageTeamSize(effortPM, durationTM)]

(***************************************************************************)
(* usecase.COCOMOUseCase over a COCOMORepository.  The repository is an    *)
(* interface: Find*ByID fails for an id it does not hold, SaveEstimate may *)
(* fail, and a repository that keeps its objects in memory hands out       *)
(* pointers to them (repoShares).  It stores one estimate, under id "e1".  *)
(***************************************************************************)
ModelIDs == {"m1", "mX"}

EstimateIDs == {"e1", "eX"}

\* The ratings a caller may give to each id (sfX and cdX are in no catalog).  An
\* estimate need not hold every id UpdateRatings is given.
CreateRatings ==
    [sf1 |-> {One}, sf2 |-> {Rat(1, 10)}, sfX |-> {Zero},
     cd2 |-> {Int2R(2)}, cdX |-> {Int2R(2)}]

UpdateRatingValues ==
    [sf1 |-> {Rat(1, 10)}, sf2 |-> {Zero}, cd2 |-> {Int2R(4)}]

\* map[string]float64 over some of the ids, each rated from choices[id].
RatingMaps(ids, choices) ==
    UNION {{f \in [S -> UNION {choices[i] : i \in S}] :
               \A i \in S : f[i] \in choices[i]} : S \in SUBSET ids}

\* The orders in which range may visit the keys of a map.
Orders(S) ==
    {o \in [1..Cardinality(S) -> S] : \A i, j \in DOMAIN o : i # j => o[i] # o[j]}

\* Every rating map with a valid size and a known model; a call the size check or
\* the model lookup rejects never reads its maps, and is given one pair of them.
CreateEstimateInputs ==
    {input \in [ModelID : ModelIDs,
                ProjectSize : {Int2R(-1), Int2R(0), Int2R(MaxSize)},
                ScaleFactors : RatingMaps({"sf1", "sf2", "sfX"}, CreateRatings),
                CostDrivers : RatingMaps({"cd2", "cdX"}, CreateRatings)] :
        \/ input.ProjectSize.n > 0 /\ input.ModelID = "m1"
        \/ DOMAIN input.ScaleFactors = {"sf1"} /\ DOMAIN input.CostDrivers = {"cd2"}}

\* Likewise a call whose estimate id is unknown is given one pair of maps.
UpdateRatingsInputs ==
    {input \in [EstimateID : EstimateIDs,
                ScaleFactors : RatingMaps({"sf1", "sf2"}, UpdateRatingValues),
                CostDrivers : RatingMaps({"cd2"}, UpdateRatingValues)] :
        \/ input.EstimateID = "e1"
        \/ DOMAIN input.ScaleFactors = {"sf1"} /\ DOMAIN input.CostDrivers = {"cd2"}}

\* A call of CreateEstimate: its input and the orders range visits its maps in.
CreateEstimateCalls ==
    UNION {{[input |-> input, sfOrder |-> so, cdOrder |-> co] :
               so \in Orders(DOMAIN input.ScaleFactors),
               co \in Orders(DOMAIN input.CostDrivers)} :
           input \in CreateEstimateInputs}

\* The position of the first id of order the repository does not hold (0: none).
FirstMissing(order, held) ==
    IF \A i \in DOMAIN order : order[i] \in held THEN 0
    ELSE CHOOSE i \in DOMAIN order :
             /\ order[i] \notin held
             /\ \A j \in 1..(i - 1) : order[j] \in held

\* A slip: break instead of return, an estimate built from the ids found so far.
LookupFailedIgnored(order, held) == FALSE

\* if err != nil { return nil, err } inside the loop over a map
LookupFailed(order, held) == FirstMissing(order, held) # 0

\* A slip: < instead of <=, a size of zero accepted.
InvalidSizeStrict(size) == RLess(size, Zero)

\* if input.ProjectSize <= 0
InvalidSize(size) == RLeq(size, Zero)

\* The ids visited before the loop ends: all of them, or those before the miss.
Visited(order, held) ==
    LET m == FirstMissing(order, held)
    IN  IF m = 0 THEN Len(order) ELSE m - 1

\* sf.Rating = rating (cd.Rating = rating) through the pointer Find*ByID returned:
\* the stored object itself when the repository shares its objects.
RateStored(stored, order, ratings, n, shares) ==
    IF shares
    THEN [id \in DOMAIN stored |->
             IF \E i \in 1..n : order[i] = id
             THEN [stored[id] EXCEPT !.Rating = ratings[id]]
             ELSE stored[id]]
    ELSE stored

\* scaleFactors = append(scaleFactors, *sf) after sf.Rating = rating
RatedCopies(stored, order, ratings, n) ==
    [i \in 1..n |-> [stored[order[i]] EXCEPT !.Rating = ratings[order[i]]]]

\* Whether an id of the input is in no catalog.
HasUnknownId(input, cat) ==
    \/ input.ModelID \notin DOMAIN cat.models
    \/ \E id \in DOMAIN input.ScaleFactors : id \notin DOMAIN cat.scaleFactors
    \/ \E id \in DOMAIN input.CostDrivers : id \notin DOMAIN cat.costDrivers

Returned(op, err, estimate, lookups, calcs, savedArg, sizeIn, unknownId) ==
    [op |-> op, err |-> err, estimate |-> estimate, lookups |-> lookups,
     calcs |-> calcs, savedArg |-> savedArg, sizeIn |-> sizeIn,
     unknownId |-> unknownId]

CreateEstimate(input, sfOrder, cdOrder) ==
    LET sfHeld == DOMAIN catalog.scaleFactors
        cdHeld == DOMAIN catalog.costDrivers
        sfSeen == Visited(sfOrder, sfHeld)
        cdSeen == Visited(cdOrder, cdHeld)
        sfMiss == LookupFailed(sfOrder, sfHeld)
        cdMiss == LookupFailed(cdOrder, cdHeld)
        unknown == HasUnknownId(input, catalog)
        size == input.ProjectSize
        Fail(err, lookups) ==
            Returned("CreateEstimate", err, Nil, lookups, 0, Nil, size, unknown)
    IN  IF InvalidSize(size)
        THEN /\ result' = Fail("invalid", 0)
             /\ UNCHANGED <<catalog, saved>>
        ELSE IF input.ModelID \notin DOMAIN catalog.models
        THEN /\ result' = Fail("not_found", 1)
             /\ UNCHANGED <<catalog, saved>>
        ELSE IF sfMiss
        THEN /\ result' = Fail("not_found", 1 + sfSeen + 1)
             /\ catalog' = [catalog EXCEPT !.scaleFactors =
                    RateStored(@, sfOrder, input.ScaleFactors, sfSeen, repoShares)]
             /\ UNCHANGED saved
        ELSE IF cdMiss
        THEN /\ result' = Fail("not_found", 1 + sfSeen + cdSeen + 1)
             /\ catalog' = [catalog EXCEPT
                    !.scaleFactors =
                        RateStored(@, sfOrder, input.ScaleFactors, sfSeen, repoShares),
                    !.costDrivers =
                        RateStored(@, cdOrder, input.CostDrivers, cdSeen, repoShares)]
             /\ UNCHANGED saved
        ELSE LET estimate == CalculateEffort(NewCOCOMOEstimate(size,
                     catalog.models[input.ModelID],
                     RatedCopies(catalog.scaleFactors, sfOrder, input.ScaleFactors, sfSeen),
                     RatedCopies(catalog.costDrivers, cdOrder, input.CostDrivers, cdSeen)))
             IN  /\ catalog' = [catalog EXCEPT
                        !.scaleFactors =
                            RateStored(@, sfOrder, input.ScaleFactors, sfSeen, repoShares),
                        !.costDrivers =
                            RateStored(@, cdOrder, input.CostDrivers, cdSeen, repoShares)]
                 /\ \E saveOk \in BOOLEAN :
                        /\ saved' = IF saveOk THEN estimate ELSE saved
                        /\ result' = Returned("CreateEstimate",
                               IF saveOk THEN "none" ELSE "save_failed",
                               IF saveOk THEN estimate ELSE Nil,
                               1 + sfSeen + cdSeen, 1, estimate, size, unknown)

\* A slip: the rating of a factor the input does not name set to zero.
RerateResetting(list, ratings) ==
    [i \in DOMAIN list |->
        [list[i] EXCEPT !.Rating = IF list[i].ID \in DOMAIN ratings
                                   THEN ratings[list[i].ID] ELSE Zero]]

\* estimate.ScaleFactors[i].Rating = rating for the first entry with sf.ID == id
Rerate(list, ratings) ==
    [i \in DOMAIN list |->
        IF list[i].ID \in DOMAIN ratings
        THEN [list[i] EXCEPT !.Rating = ratings[list[i].ID]]
        ELSE list[i]]

\* Whether an id of the input is the ID of no factor of the estimate: the
\* inner loops then end without a match.
HasUnmatchedId(input, estimate) ==
    \/ \E id \in DOMAIN input.ScaleFactors :
           \A i \in DOMAIN estimate.ScaleFactors : estimate.ScaleFactors[i].ID # id
    \/ \E id \in DOMAIN input.CostDrivers :
           \A i \in DOMAIN estimate.CostDrivers : estimate.CostDrivers[i].ID # id

\* A slip: the estimate calculated before its ratings are changed.
UpdateRatingsCalculatingFirst(input) ==
    IF saved = Nil \/ input.EstimateID # "e1"
    THEN /\ result' = Returned("UpdateRatings", "not_found", Nil, 1, 0, Nil, Zero, TRUE)
         /\ UNCHANGED <<catalog, saved>>
    ELSE LET estimate == [CalculateEffort(saved) EXCEPT
                 !.ScaleFactors = Rerate(@, input.ScaleFactors),
                 !.CostDrivers = Rerate(@, input.CostDrivers)]
         IN  /\ \E saveOk \in BOOLEAN :
                    /\ saved' = IF saveOk \/ repoShares THEN estimate ELSE saved
                    /\ result' = Returned("UpdateRatings",
                           IF saveOk THEN "none" ELSE "save_failed",
                           IF saveOk THEN estimate ELSE Nil,
                           1, 1, estimate, saved.ProjectSize,
                           HasUnmatchedId(input, saved))
             /\ UNCHANGED catalog

UpdateRatings(input) ==
    IF saved = Nil \/ input.EstimateID # "e1"
    THEN /\ result' = Returned("UpdateRatings", "not_found", Nil, 1, 0, Nil, Zero, TRUE)
         /\ UNCHANGED <<catalog, saved>>
    ELSE LET rated == [saved EXCEPT
                 !.ScaleFactors = Rerate(@, input.ScaleFactors),
                 !.CostDrivers = Rerate(@, input.CostDrivers)]
             estimate == CalculateEffort(rated)
         IN  /\ \E saveOk \in BOOLEAN :
                    /\ saved' = IF saveOk \/ repoShares THEN estimate ELSE saved
                    /\ result' = Returned("UpdateRatings",
                           IF saveOk THEN "none" ELSE "save_failed",
                           IF saveOk THEN estimate ELSE Nil,
                           1, 1, estimate, saved.ProjectSize,
                           HasUnmatchedId(input, saved))
             /\ UNCHANGED catalog

\* No CalculateTotalHours has been called.
NoCalculation ==
    [calls |-> 0, err |-> "none", activityResult |-> Nil, cocomoResult |-> Nil,
     baseHoursCalls |-> <<>>]

NoCall == Returned("none", "none", Nil, 0, 0, Nil, Zero, FALSE)

Init ==
    /\ catalog = InitialCatalog
    /\ repoShares \in BOOLEAN
    /\ saved = Nil
    /\ result = NoCall
    /\ cocomo = Nil
    /\ effortCalls = 0
    /\ projectEstimate = Nil
    /\ calc = NoCalculation
    /\ detailed = Nil
    /\ workers = <<>>

CreateEstimateCall ==
    /\ \E call \in CreateEstimateCalls :
         CreateEstimate(call.input, call.sfOrder, call.cdOrder)
    /\ UNCHANGED <<repoShares, cocomo, effortCalls, projectEstimate, calc, detailed, workers>>

UpdateRatingsCall ==
    /\ \E input \in UpdateRatingsInputs :
         UpdateRatings(input)
    /\ UNCHANGED <<repoShares, cocomo, effortCalls, projectEstimate, calc, detailed, workers>>

Next == CreateEstimateCall \/ UpdateRatingsCall

Spec == Init /\ [][Next]_vars

(***************************************************************************)
(* CalculateEffort on its own: an estimate as CreateEstimate builds it,    *)
(* for each model, size, rated scale factors and cost drivers below, and   *)
(* calculated repeatedly (as UpdateRatings and calculateCOCOMOBased do).   *)
(* Scale factor sf1 is rated 3 (the exponent 13.06) for size 1 only.       *)
(***************************************************************************)
Sf1Ratings(size) ==
    IF size = 1 THEN {Rat(1, 10), One, Int2R(3)} ELSE {Rat(1, 10), One}

Sf2Ratings == {Zero, Rat(1, 10)}

RatedScaleFactorLists(size) ==
    LET sf1s == {[DefaultScaleFactors.sf1 EXCEPT !.Rating = r] : r \in Sf1Ratings(size)}
        sf2s == {[DefaultScaleFactors.sf2 EXCEPT !.Rating = r] : r \in Sf2Ratings}
    IN  {<<>>} \cup {<<a>> : a \in sf1s} \cup {<<b>> : b \in sf2s}
            \cup {<<a, b>> : a \in sf1s, b \in sf2s}
            \cup {<<b, a>> : a \in sf1s, b \in sf2s}

CostDriverLists ==
    {<<>>, <<DefaultCostDrivers.cd1>>, <<DefaultCostDrivers.cd2>>,
     <<DefaultCostDrivers.cd1, DefaultCostDrivers.cd2>>}

EffortInputs ==
    UNION {{NewCOCOMOEstimate(Int2R(size), DefaultModels[m], sfs, cds) :
               m \in DOMAIN DefaultModels,
               sfs \in RatedScaleFactorLists(size),
               cds \in CostDriverLists} :
           size \in 1..MaxSize}

InitEffort ==
    /\ catalog = InitialCatalog
    /\ repoShares = FALSE
    /\ saved = Nil
    /\ result = NoCall
    /\ cocomo \in EffortInputs
    /\ effortCalls = 0
    /\ projectEstimate = Nil
    /\ calc = NoCalculation
    /\ detailed = Nil
    /\ workers = <<>>

CalculateEffortCall ==
    /\ effortCalls < MaxEffortCalls
    /\ cocomo' = CalculateEffort(cocomo)
    /\ effortCalls' = effortCalls + 1
    /\ UNCHANGED <<catalog, repoShares, saved, result, projectEstimate, calc, detailed, workers>>

NextEffort == CalculateEffortCall

SpecEffort == InitEffort /\ [][NextEffort]_vars

(***************************************************************************)
(* domain.Estimate: the activity-based calculation, the COCOMO II based    *)
(* calculation and their reconciliation.                                   *)
(***************************************************************************)
MaxTasks == 2
MaxCalculations == 2

\* The process repository: the first activities of the first two processes
\* of InitializeDefaultProcesses. FindByID fails for any other id.
ProcessRepo ==
    [p1 |-> [ID |-> "p1",
             Activities |-> <<[ID |-> "a1", BaseHours |-> Int2R(16)],
                              [ID |-> "a2", BaseHours |-> Int2R(24)]>>],
     p2 |-> [ID |-> "p2",
             Activities |-> <<[ID |-> "a4", BaseHours |-> Int2R(24)]>>]]

\* var activity Activity
ZeroActivity == [ID |-> "", BaseHours |-> Zero]

\* for _, a := range process.Activities { if a.ID == task.ActivityID { ... break } }
RECURSIVE FindActivity(_, _, _)
FindActivity(activities, id, i) ==
    IF i > Len(activities) THEN ZeroActivity
    ELSE IF activities[i].ID = id THEN activities[i]
    ELSE FindActivity(activities, id, i + 1)

\* A slip: the multiplier centred on complexity 3 (0.4 + 0.2 * complexity).
ComplexityMultiplierSymmetric(complexity) ==
    RAdd(Rat(4, 10), RMul(Int2R(complexity), Rat(2, 10)))

\* A slip: the complexity counted from zero (0.8 + 0.2 * (complexity - 1)).
ComplexityMultiplierZeroBased(complexity) ==
    RAdd(Rat(8, 10), RMul(Int2R(complexity - 1), Rat(2, 10)))

\* complexityMultiplier := 0.8 + (float64(t.Complexity) * 0.2)
ComplexityMultiplier(complexity) ==
    RAdd(Rat(8, 10), RMul(Int2R(complexity), Rat(2, 10)))

CalculateBaseHours(t, activity) ==
    LET baseHours == RMul(activity.BaseHours, t.Scale)
    IN  RMul(baseHours, ComplexityMultiplier(t.Complexity))

\* Factor.Apply
Apply(f, hours) == RMul(hours, f.Impact)

\* A slip: only the first factor of the list applied.
ApplyFirstFactorOnly(factors, hours, i) ==
    IF factors = <<>> THEN hours ELSE Apply(factors[1], hours)

\* for _, factor := range factors { hours = factor.Apply(hours) }
RECURSIVE ApplyFactors(_, _, _)
ApplyFactors(factors, hours, i) ==
    IF i > Len(factors) THEN hours
    ELSE ApplyFactors(factors, Apply(factors[i], hours), i + 1)

\* The task loop of one process estimate; calls records each
\* CalculateBaseHours call with its arguments and its return value.
RECURSIVE TaskLoop(_, _, _, _, _)
TaskLoop(tasks, process, j, processTotal, calls) ==
    IF j > Len(tasks)
    THEN [processTotal |-> processTotal, calls |-> calls]
    ELSE LET task == tasks[j]
             activity == FindActivity(process.Activities, task.ActivityID, 1)
             baseHours == CalculateBaseHours(task, activity)
         IN  TaskLoop(tasks, process, j + 1,
                 RAdd(processTotal, ApplyFactors(task.CustomFactors, baseHours, 1)),
                 Append(calls, [task |-> task, activity |-> activity,
                                hours |-> baseHours]))

HoursPerMonth == Int2R(160)
DefaultTeamSize == Int2R(5)
ActivityConfidence == Rat(80, 100)

\* A slip: the COCOMO II result given the activity-based confidence.
CocomoConfidenceAsActivity == Rat(80, 100)

CocomoConfidence == Rat(85, 100)

\* The CalculationResult of calculateActivityBased.
NewActivityResult(projectTotal) ==
    [Method |-> "activity_based",
     TotalHours |-> projectTotal,
     PersonMonths |-> RDiv(projectTotal, HoursPerMonth),
     TeamSize |-> DefaultTeamSize,
     DurationMonths |-> RDiv(RDiv(projectTotal, HoursPerMonth), DefaultTeamSize),
     Confidence |-> ActivityConfidence]

\* The process loop of calculateActivityBased, from process estimate i on:
\* the lookup and the task loop (ProcessLoop), the global factors
\* (ApplyGlobalFactors), the two stores and the project total (StoreHours).
RECURSIVE ProcessLoop(_, _, _, _)
StoreHours(e, i, projectTotal, tasks, processTotal) ==
    ProcessLoop([e EXCEPT !.ProcessEstimates[i].BaseHours = tasks.processTotal,
                          !.ProcessEstimates[i].TotalHours = processTotal],
                i + 1, RAdd(projectTotal, processTotal), tasks.calls)

ApplyGlobalFactors(e, i, projectTotal, tasks) ==
    StoreHours(e, i, projectTotal, tasks,
               ApplyFactors(e.GlobalFactors, tasks.processTotal, 1))

ProcessLoop(e, i, projectTotal, calls) ==
    IF i > Len(e.ProcessEstimates)
    THEN [estimate |-> e, err |-> "none", calls |-> calls,
          result |-> NewActivityResult(projectTotal)]
    ELSE IF e.ProcessEstimates[i].Process \notin DOMAIN ProcessRepo
    THEN [estimate |-> e, err |-> "not_found", calls |-> calls, result |-> Nil]
    ELSE ApplyGlobalFactors(e, i, projectTotal,
             TaskLoop(e.ProcessEstimates[i].Tasks,
                      ProcessRepo[e.ProcessEstimates[i].Process], 1, Zero, calls))

calculateActivityBased(e) == ProcessLoop(e, 1, Zero, <<>>)

\* The CalculationResult of calculateCOCOMOBased.
NewCOCOMOResult(c) ==
    [Method |-> "cocomo_based",
     TotalHours |-> RMul(c.EffortPM, HoursPerMonth),
     PersonMonths |-> c.EffortPM,
     TeamSize |-> c.TeamSize,
     DurationMonths |-> c.DurationTM,
     Confidence |-> CocomoConfidence]

calculateCOCOMOBased(e) ==
    LET recalculated == CalculateEffort(e.COCOMOEstimate)
    IN  [estimate |-> [e EXCEPT !.COCOMOEstimate = recalculated],
         result |-> NewCOCOMOResult(recalculated)]

\* A slip: the activity-based confidence alone as the total.
TotalConfidenceActivityOnly(activityResult, cocomoResult) ==
    activityResult.Confidence

\* totalConfidence := activityResult.Confidence + cocomoResult.Confidence
TotalConfidence(activityResult, cocomoResult) ==
    RAdd(activityResult.Confidence, cocomoResult.Confidence)

\* The weighted average of reconcileEstimates.
WeightedAverage(activityResult, cocomoResult) ==
    LET totalConfidence == TotalConfidence(activityResult, cocomoResult)
        activityWeight == RDiv(activityResult.Confidence, totalConfidence)
        cocomoWeight == RDiv(cocomoResult.Confidence, totalConfidence)
    IN  RAdd(RMul(activityResult.TotalHours, activityWeight),
             RMul(cocomoResult.TotalHours, cocomoWeight))

\* A slip: no cocomoResult == nil branch, a missing COCOMO II result
\* weighted in as zero hours.
reconcileEstimatesAlwaysWeighted(e, activityResult, cocomoResult) ==
    [e EXCEPT !.TotalHours = WeightedAverage(activityResult,
        IF cocomoResult = Nil
        THEN [TotalHours |-> Zero, Confidence |-> CocomoConfidence]
        ELSE cocomoResult)]

reconcileEstimates(e, activityResult, cocomoResult) ==
    IF cocomoResult = Nil
    THEN [e EXCEPT !.TotalHours = activityResult.TotalHours]
    ELSE [e EXCEPT !.TotalHours = WeightedAverage(activityResult, cocomoResult)]

\* Estimate.CalculateTotalHours: the estimate it leaves, its error and
\* what it computed on the way.  Reconciled is its last step, CombineResults
\* its steps after calculateActivityBased.
Reconciled(activity, cocomoBased) ==
    [estimate |-> reconcileEstimates(cocomoBased.estimate, activity.result,
                                     cocomoBased.result),
     err |-> "none",
     activityResult |-> activity.result,
     cocomoResult |-> cocomoBased.result,
     calls |-> activity.calls]

CombineResults(activity) ==
    IF activity.err # "none"
    THEN [estimate |-> activity.estimate, err |-> activity.err,
          activityResult |-> Nil, cocomoResult |-> Nil, calls |-> activity.calls]
    ELSE Reconciled(activity,
             IF activity.estimate.COCOMOEstimate # Nil
             THEN calculateCOCOMOBased(activity.estimate)
             ELSE [estimate |-> activity.estimate, result |-> Nil])

CalculateTotalHours(e) == CombineResults(calculateActivityBased(e))

(***************************************************************************)
(* CalculateTotalHours on its own: a freshly built Estimate (hours zero)   *)
(* for each choice of process estimates, global factors and COCOMO II      *)
(* estimate below, calculated repeatedly.                                  *)
(***************************************************************************)
NewTask(activityID, complexity, scale, customFactors) ==
    [ActivityID |-> activityID, Complexity |-> complexity, Scale |-> scale,
     CustomFactors |-> customFactors]

NewFactor(id, impact) == [ID |-> id, Impact |-> impact]

\* Impacts of InitializeDefaultFactors.
CustomFactorList == <<NewFactor("f1", Rat(15, 10)), NewFactor("f3", Rat(8, 10))>>

GlobalFactorLists ==
    {<<>>, <<NewFactor("f2", Rat(13, 10))>>,
     <<NewFactor("f2", Rat(13, 10)), NewFactor("f6", Rat(125, 100))>>}

\* Tasks of process p1: every complexity on activity a1, a task as large as
\* the COCOMO II hours of model m1 (16 * 21 * 1.4 = 2.94 * 160), a task with
\* custom factors and a task whose activity p1 does not have.
TaskChoices ==
    {NewTask("a1", c, One, <<>>) : c \in 1..5}
        \cup {NewTask("a1", 3, Int2R(21), <<>>),
              NewTask("a2", 2, Rat(1, 2), CustomFactorList),
              NewTask("aX", 3, One, <<>>)}

\* Tasks of the second process estimate: one of p2, one of another process.
SecondTaskLists ==
    {<<>>, <<NewTask("a4", 1, One, <<>>)>>, <<NewTask("a1", 1, One, <<>>)>>}

TaskLists(n) == UNION {[1..k -> TaskChoices] : k \in 0..n}

NewProcessEstimate(process, tasks) ==
    [Process |-> process, Tasks |-> tasks, BaseHours |-> Zero, TotalHours |-> Zero]

ProcessEstimateLists ==
    {<<NewProcessEstimate("p1", ts)>> : ts \in TaskLists(MaxTasks)}
        \cup {<<NewProcessEstimate("pX", <<NewTask("a1", 1, One, <<>>)>>)>>}
        \cup {<<NewProcessEstimate("p1", ts), NewProcessEstimate(q, us)>> :
                 ts \in TaskLists(1), q \in {"p2", "pX"}, us \in SecondTaskLists}
        \cup {<<NewProcessEstimate("pX", <<>>), NewProcessEstimate("p1", ts)>> :
                 ts \in TaskLists(1)}

\* No COCOMO II estimate, one never calculated, and one whose scale factor
\* was rated again after its last CalculateEffort.
COCOMOChoices ==
    {Nil,
     NewCOCOMOEstimate(One, DefaultModels.m1, <<>>, <<>>),
     NewCOCOMOEstimate(One, DefaultModels.m2, <<>>, <<DefaultCostDrivers.cd2>>),
     [CalculateEffort(NewCOCOMOEstimate(Int2R(2), DefaultModels.m1,
          <<[DefaultScaleFactors.sf1 EXCEPT !.Rating = Rat(1, 10)]>>, <<>>))
      EXCEPT !.ScaleFactors = <<[DefaultScaleFactors.sf1 EXCEPT !.Rating = One]>>]}

ProjectEstimates ==
    {[ProcessEstimates |-> pes, GlobalFactors |-> gfs, COCOMOEstimate |-> c,
      TotalHours |-> Zero] :
        pes \in ProcessEstimateLists, gfs \in GlobalFactorLists, c \in COCOMOChoices}

InitProject ==
    /\ catalog = InitialCatalog
    /\ repoShares = FALSE
    /\ saved = Nil
    /\ result = NoCall
    /\ cocomo = Nil
    /\ effortCalls = 0
    /\ projectEstimate \in ProjectEstimates
    /\ calc = NoCalculation
    /\ detailed = Nil
    /\ workers = <<>>

\* The state a CalculateTotalHours call leaves.
CalculationDone(out) ==
    /\ projectEstimate' = out.estimate
    /\ calc' = [calls |-> calc.calls + 1, err |-> out.err,
                activityResult |-> out.activityResult,
                cocomoResult |-> out.cocomoResult,
                baseHoursCalls |-> out.calls]

CalculateTotalHoursCall ==
    /\ calc.calls < MaxCalculations
    /\ CalculationDone(CalculateTotalHours(projectEstimate))
    /\ UNCHANGED <<catalog, repoShares, saved, result, cocomo, effortCalls, detailed, workers>>

NextProject == CalculateTotalHoursCall

SpecProject == InitProject /\ [][NextProject]_vars

(***************************************************************************)
(* COCOMOEstimate.GenerateDetailedResult with assessRiskLevel and          *)
(* identifyRiskFactors.  A factor's Name is its ID here; the phase names   *)
(* and the texts of descriptions and mitigations are left out, a           *)
(* recommendation is "" or "improve".                                      *)
(***************************************************************************)
\* A slip: the pessimistic effort as nominal / 0.8.
EffortRangeInverse(e) ==
    [Optimistic |-> RMul(e.EffortPM, Rat(8, 10)),
     Nominal |-> e.EffortPM,
     Pessimistic |-> RMul(e.EffortPM, Rat(125, 100))]

EffortRange(e) ==
    [Optimistic |-> RMul(e.EffortPM, Rat(8, 10)),
     Nominal |-> e.EffortPM,
     Pessimistic |-> RMul(e.EffortPM, Rat(12, 10))]

DurationRange(e) ==
    [Optimistic |-> RMul(e.DurationTM, Rat(85, 100)),
     Nominal |-> e.DurationTM,
     Pessimistic |-> RMul(e.DurationTM, Rat(115, 100))]

TeamSizeRange(e) ==
    [Minimum |-> RMul(e.TeamSize, Rat(7, 10)),
     Average |-> e.TeamSize,
     Maximum |-> RMul(e.TeamSize, Rat(13, 10))]

\* The zero value of COCOMODetailedResult.CostEstimate.
ZeroCost ==
    [HourlyRate |-> Zero, TotalCost |-> Zero,
     CostRange |-> [Minimum |-> Zero, Nominal |-> Zero, Maximum |-> Zero]]

FilledCost(hourlyRate, totalCost) ==
    [HourlyRate |-> hourlyRate, TotalCost |-> totalCost,
     CostRange |-> [Minimum |-> RMul(totalCost, Rat(8, 10)),
                    Nominal |-> totalCost,
                    Maximum |-> RMul(totalCost, Rat(12, 10))]]

MonthlyHours == Int2R(160)

\* A slip: the cost filled in whatever the rate.
CostEstimateUnguarded(e, hourlyRate) ==
    FilledCost(hourlyRate, RMul(RMul(e.EffortPM, MonthlyHours), hourlyRate))

\* if hourlyRate > 0 { ... }
CostEstimate(e, hourlyRate) ==
    IF RLess(Zero, hourlyRate)
    THEN FilledCost(hourlyRate, RMul(RMul(e.EffortPM, MonthlyHours), hourlyRate))
    ELSE ZeroCost

\* A slip: the last phase at 10% of the effort.
PhasePercentsUnbalanced ==
    <<Rat(8, 100), Rat(18, 100), Rat(25, 100), Rat(26, 100), Rat(15, 100), Rat(10, 100)>>

\* PercentEffort of the six phases, and their shares of the duration.
PhasePercents ==
    <<Rat(8, 100), Rat(18, 100), Rat(25, 100), Rat(26, 100), Rat(15, 100), Rat(8, 100)>>

PhaseDurations ==
    <<Rat(15, 100), Rat(25, 100), Rat(35, 100), Rat(45, 100), Rat(25, 100), Rat(15, 100)>>

PhaseDistribution(e) ==
    [k \in DOMAIN PhasePercents |->
        [Phase |-> k,
         PercentEffort |-> PhasePercents[k],
         Effort |-> RMul(e.EffortPM, PhasePercents[k]),
         Duration |-> RMul(e.DurationTM, PhaseDurations[k]),
         AverageStaff |-> RDiv(RMul(e.EffortPM, PhasePercents[k]),
                               RMul(e.DurationTM, PhaseDurations[k]))]]

\* for _, sf := range e.ScaleFactors { ... append(result.ScaleFactorAnalysis, analysis) }
ScaleFactorAnalysis(e) ==
    [i \in DOMAIN e.ScaleFactors |->
        [Name |-> e.ScaleFactors[i].ID,
         Rating |-> e.ScaleFactors[i].Rating,
         Impact |-> RMul(e.ScaleFactors[i].Weight, e.ScaleFactors[i].Rating),
         Sensitivity |-> RDiv(RMul(e.ScaleFactors[i].Weight, Rat(5, 10)), e.EffortPM),
         Recommendation |->
             IF RLess(Rat(35, 10), e.ScaleFactors[i].Rating) THEN "improve" ELSE ""]]

\* A slip: the recommendation given above 1.3, the threshold of the risks.
CostDriverAnalysisHighOnly(e) ==
    [i \in DOMAIN e.CostDrivers |->
        [Name |-> e.CostDrivers[i].ID,
         Rating |-> e.CostDrivers[i].Rating,
         Impact |-> e.CostDrivers[i].Value,
         Sensitivity |->
             RDiv(RSub(RMul(e.CostDrivers[i].Value, Rat(11, 10)), e.CostDrivers[i].Value),
                  e.CostDrivers[i].Value),
         Recommendation |->
             IF RLess(Rat(13, 10), e.CostDrivers[i].Value) THEN "improve" ELSE ""]]

\* for _, cd := range e.CostDrivers { ... append(result.CostDriverAnalysis, analysis) }
CostDriverAnalysis(e) ==
    [i \in DOMAIN e.CostDrivers |->
        [Name |-> e.CostDrivers[i].ID,
         Rating |-> e.CostDrivers[i].Rating,
         Impact |-> e.CostDrivers[i].Value,
         Sensitivity |->
             RDiv(RSub(RMul(e.CostDrivers[i].Value, Rat(11, 10)), e.CostDrivers[i].Value),
                  e.CostDrivers[i].Value),
         Recommendation |->
             IF RLess(Rat(12, 10), e.CostDrivers[i].Value) THEN "improve" ELSE ""]]

\* A slip: a rating of exactly 4.0 counted.
IsHighRatingInclusive(sf) == RLeq(Int2R(4), sf.Rating)

\* sf.Rating > 4.0
IsHighRating(sf) == RLess(Int2R(4), sf.Rating)

\* cd.Value > 1.3
IsHighValue(cd) == RLess(Rat(13, 10), cd.Value)

\* The two counting loops of assessRiskLevel.
RECURSIVE CountHighRatings(_, _, _)
CountHighRatings(scaleFactors, i, highRiskCount) ==
    IF i > Len(scaleFactors) THEN highRiskCount
    ELSE CountHighRatings(scaleFactors, i + 1,
             IF IsHighRating(scaleFactors[i]) THEN highRiskCount + 1 ELSE highRiskCount)

RECURSIVE CountHighValues(_, _, _)
CountHighValues(costDrivers, i, highRiskCount) ==
    IF i > Len(costDrivers) THEN highRiskCount
    ELSE CountHighValues(costDrivers, i + 1,
             IF IsHighValue(costDrivers[i]) THEN highRiskCount + 1 ELSE highRiskCount)

RiskLevelOf(highRiskCount) ==
    IF highRiskCount >= 3 THEN "High"
    ELSE IF highRiskCount >= 1 THEN "Medium"
    ELSE "Low"

assessRiskLevel(e) ==
    RiskLevelOf(CountHighValues(e.CostDrivers, 1,
                    CountHighRatings(e.ScaleFactors, 1, 0)))

\* The three parts of identifyRiskFactors.
RECURSIVE ScaleFactorRisks(_, _, _)
ScaleFactorRisks(scaleFactors, i, risks) ==
    IF i > Len(scaleFactors) THEN risks
    ELSE ScaleFactorRisks(scaleFactors, i + 1,
             IF IsHighRating(scaleFactors[i])
             THEN Append(risks, [Category |-> "Process", Name |-> scaleFactors[i].ID,
                                 Level |-> "High",
                                 Impact |-> RMul(scaleFactors[i].Weight,
                                                 scaleFactors[i].Rating)])
             ELSE risks)

RECURSIVE CostDriverRisks(_, _, _)
CostDriverRisks(costDrivers, i, risks) ==
    IF i > Len(costDrivers) THEN risks
    ELSE CostDriverRisks(costDrivers, i + 1,
             IF IsHighValue(costDrivers[i])
             THEN Append(risks, [Category |-> "Technical", Name |-> costDrivers[i].ID,
                                 Level |-> "High", Impact |-> costDrivers[i].Value])
             ELSE risks)

\* A slip: the large-project risk given the level of the other risks.
LargeProjectRiskHigh ==
    [Category |-> "Technical", Name |-> "large_project", Level |-> "High",
     Impact |-> Rat(13, 10)]

LargeProjectRisk ==
    [Category |-> "Technical", Name |-> "large_project", Level |-> "Medium",
     Impact |-> Rat(13, 10)]

\* A slip: a project of exactly 100 taken for a large one.
SizeRisksInclusive(projectSize, risks) ==
    IF RLeq(Int2R(100), projectSize) THEN Append(risks, LargeProjectRisk) ELSE risks

\* if e.ProjectSize > 100 { risks = append(risks, ...) }
SizeRisks(projectSize, risks) ==
    IF RLess(Int2R(100), projectSize) THEN Append(risks, LargeProjectRisk) ELSE risks

identifyRiskFactors(e) ==
    SizeRisks(e.ProjectSize,
        CostDriverRisks(e.CostDrivers, 1, ScaleFactorRisks(e.ScaleFactors, 1, <<>>)))

\* The COCOMODetailedResult built for e.
DetailedResultOf(e, hourlyRate) ==
    [ProjectSize |-> e.ProjectSize,
     ModelType |-> e.Model.ID,
     BaseEffort |-> RMul(e.Model.A, pow(e.ProjectSize, e.Model.B)),
     AdjustedEffort |-> e.EffortPM,
     EffortRange |-> EffortRange(e),
     Duration |-> e.DurationTM,
     DurationRange |-> DurationRange(e),
     TeamSize |-> e.TeamSize,
     TeamSizeRange |-> TeamSizeRange(e),
     CostEstimate |-> CostEstimate(e, hourlyRate),
     PhaseDistribution |-> PhaseDistribution(e),
     ScaleFactorAnalysis |-> ScaleFactorAnalysis(e),
     CostDriverAnalysis |-> CostDriverAnalysis(e),
     RiskLevel |-> assessRiskLevel(e),
     RiskFactors |-> identifyRiskFactors(e)]

\* A slip: the pessimistic effort stored in the estimate.
GenerateDetailedResultStoring(e, hourlyRate) ==
    [estimate |-> [e EXCEPT !.EffortPM = EffortRange(e).Pessimistic],
     result |-> DetailedResultOf(e, hourlyRate)]

\* GenerateDetailedResult: the estimate it leaves and the result it returns.
\* Nothing in it, nor in assessRiskLevel or identifyRiskFactors, assigns to
\* a field of e.
GenerateDetailedResult(e, hourlyRate) ==
    [estimate |-> e, result |-> DetailedResultOf(e, hourlyRate)]

(***************************************************************************)
(* GenerateDetailedResult on its own, for each hourly rate below, on the   *)
(* calculated estimates of EffortInputs rated up to 1 and on estimates     *)
(* with high ratings and values, of sizes up to 101: as CreateEstimate's   *)
(* literal builds them and, where the numbers stay small, calculated.      *)
(***************************************************************************)
HourlyRates == {Int2R(-1), Zero, Rat(1, 2), Int2R(5000)}

\* A model and two cost drivers stored through SaveModel and SaveCostDriver.
DetailModel == [ID |-> "m3", A |-> Int2R(20), B |-> Rat(91, 100)]

DetailCostDrivers ==
    [cd3 |-> [ID |-> "cd3", Value |-> Rat(13, 10), Rating |-> Zero],
     cd4 |-> [ID |-> "cd4", Value |-> Rat(15, 10), Rating |-> Zero]]

RiskScaleFactorLists ==
    LET sf1(r) == [DefaultScaleFactors.sf1 EXCEPT !.Rating = r]
        sf2(r) == [DefaultScaleFactors.sf2 EXCEPT !.Rating = r]
    IN  {<<>>, <<sf1(Int2R(4))>>, <<sf1(Rat(45, 10))>>,
         <<sf1(Int2R(4)), sf2(Int2R(5))>>, <<sf1(Rat(45, 10)), sf2(Int2R(5))>>}

RiskCostDriverLists ==
    {<<>>, <<DetailCostDrivers.cd3>>, <<DefaultCostDrivers.cd2>>,
     <<DetailCostDrivers.cd3, DefaultCostDrivers.cd2>>,
     <<DefaultCostDrivers.cd2, DetailCostDrivers.cd4>>,
     <<DefaultCostDrivers.cd1, DetailCostDrivers.cd3, DefaultCostDrivers.cd2,
       DetailCostDrivers.cd4>>}

RiskInputs ==
    {NewCOCOMOEstimate(Int2R(size), DetailModel, sfs, cds) :
        size \in {1, 100, 101}, sfs \in RiskScaleFactorLists,
        cds \in RiskCostDriverLists}

\* The estimates of RiskInputs that are also taken calculated.
TakenCalculated(e) ==
    \/ e.ScaleFactors = <<>>
    \/ /\ e.CostDrivers \in {<<>>, <<DetailCostDrivers.cd3>>}
       /\ Len(e.ScaleFactors) = 1
       /\ e.ProjectSize = One

\* The estimates of EffortInputs with no rating above 1.
ModestlyRated(e) ==
    \A i \in DOMAIN e.ScaleFactors : RLeq(e.ScaleFactors[i].Rating, One)

DetailInputs ==
    {CalculateEffort(e) : e \in {x \in EffortInputs : ModestlyRated(x)}}
        \cup RiskInputs
        \cup {CalculateEffort(e) : e \in {x \in RiskInputs : TakenCalculated(x)}}

InitDetail ==
    /\ catalog = InitialCatalog
    /\ repoShares = FALSE
    /\ saved = Nil
    /\ result = NoCall
    /\ cocomo \in DetailInputs
    /\ effortCalls = 0
    /\ projectEstimate = Nil
    /\ calc = NoCalculation
    /\ detailed = Nil
    /\ workers = <<>>

\* The state a GenerateDetailedResult call leaves.
DetailDone(hourlyRate, out) ==
    /\ cocomo' = out.estimate
    /\ detailed' = [hourlyRate |-> hourlyRate, result |-> out.result]

GenerateDetailedResultCall ==
    /\ \E hourlyRate \in HourlyRates :
           DetailDone(hourlyRate, GenerateDetailedResult(cocomo, hourlyRate))
    /\ UNCHANGED <<catalog, repoShares, saved, result, effortCalls, projectEstimate, calc, workers>>

NextDetail == GenerateDetailedResultCall

SpecDetail == InitDetail /\ [][NextDetail]_vars

(***************************************************************************)
(* Two CreateEstimate computations running side by side, one statement of  *)
(* the rating loops at a time.  FindScaleFactorByID and FindCostDriverByID *)
(* return pointers: a repository that hands out the objects it stores      *)
(* gives both computations the same object.                                *)
(***************************************************************************)
Workers == {1, 2}

\* The ratings each computation asks for: no id is given the same rating twice.
WorkerRatings == <<CreateRatings, UpdateRatingValues>>

WorkerInputs(w) ==
    [ModelID : {"m1"}, ProjectSize : {Int2R(MaxSize)},
     ScaleFactors : RatingMaps({"sf1", "sf2"}, WorkerRatings[w]),
     CostDrivers : RatingMaps({"cd2"}, WorkerRatings[w])]

\* The position of a computation: the ids its range loops have yet to visit,
\* the object the last lookup returned and the copies appended so far.
NewWorker(input) ==
    [input |-> input, pc |-> "start", model |-> Nil,
     sfLeft |-> DOMAIN input.ScaleFactors, cdLeft |-> DOMAIN input.CostDrivers,
     held |-> "", own |-> Nil,
     scaleFactors |-> <<>>, costDrivers |-> <<>>, estimate |-> Nil]

\* Where a computation continues once a loop body is done.
AfterLoopBody(sfLeft, cdLeft) ==
    IF sfLeft # {} THEN "sf" ELSE IF cdLeft # {} THEN "cd" ELSE "build"

\* The object behind the pointer a lookup returned.
Pointee(stored, worker) == IF repoShares THEN stored[worker.held] ELSE worker.own

\* if input.ProjectSize <= 0 ...; model, err := uc.cocomoRepo.FindModelByID(...)
StartStep(w) ==
    /\ workers[w].pc = "start"
    /\ ~InvalidSize(workers[w].input.ProjectSize)
    /\ workers[w].input.ModelID \in DOMAIN catalog.models
    /\ workers' = [workers EXCEPT
           ![w].model = catalog.models[workers[w].input.ModelID],
           ![w].pc = AfterLoopBody(workers[w].sfLeft, workers[w].cdLeft)]
    /\ UNCHANGED <<catalog, repoShares, saved, result, cocomo, effortCalls,
                   projectEstimate, calc, detailed>>

\* sf, err := uc.cocomoRepo.FindScaleFactorByID(id); sf.Rating = rating
RateScaleFactorStep(w) ==
    /\ workers[w].pc = "sf"
    /\ \E id \in workers[w].sfLeft :
           LET rating == workers[w].input.ScaleFactors[id]
           IN  /\ id \in DOMAIN catalog.scaleFactors
               /\ catalog' = IF repoShares
                             THEN [catalog EXCEPT !.scaleFactors[id].Rating = rating]
                             ELSE catalog
               /\ workers' = [workers EXCEPT
                      ![w].held = id,
                      ![w].own = IF repoShares THEN Nil
                                 ELSE [catalog.scaleFactors[id] EXCEPT !.Rating = rating],
                      ![w].pc = "sfcopy"]
    /\ UNCHANGED <<repoShares, saved, result, cocomo, effortCalls,
                   projectEstimate, calc, detailed>>

\* scaleFactors = append(scaleFactors, *sf)
CopyScaleFactorStep(w) ==
    /\ workers[w].pc = "sfcopy"
    /\ LET left == workers[w].sfLeft \ {workers[w].held}
       IN  workers' = [workers EXCEPT
               ![w].scaleFactors = Append(@, Pointee(catalog.scaleFactors, workers[w])),
               ![w].sfLeft = left,
               ![w].held = "",
               ![w].own = Nil,
               ![w].pc = AfterLoopBody(left, workers[w].cdLeft)]
    /\ UNCHANGED <<catalog, repoShares, saved, result, cocomo, effortCalls,
                   projectEstimate, calc, detailed>>

\* cd, err := uc.cocomoRepo.FindCostDriverByID(id); cd.Rating = rating
RateCostDriverStep(w) ==
    /\ workers[w].pc = "cd"
    /\ \E id \in workers[w].cdLeft :
           LET rating == workers[w].input.CostDrivers[id]
           IN  /\ id \in DOMAIN catalog.costDrivers
               /\ catalog' = IF repoShares
                             THEN [catalog EXCEPT !.costDrivers[id].Rating = rating]
                             ELSE catalog
               /\ workers' = [workers EXCEPT
                      ![w].held = id,
                      ![w].own = IF repoShares THEN Nil
                                 ELSE [catalog.costDrivers[id] EXCEPT !.Rating = rating],
                      ![w].pc = "cdcopy"]
    /\ UNCHANGED <<repoShares, saved, result, cocomo, effortCalls,
                   projectEstimate, calc, detailed>>

\* costDrivers = append(costDrivers, *cd)
CopyCostDriverStep(w) ==
    /\ workers[w].pc = "cdcopy"
    /\ LET left == workers[w].cdLeft \ {workers[w].held}
       IN  workers' = [workers EXCEPT
               ![w].costDrivers = Append(@, Pointee(catalog.costDrivers, workers[w])),
               ![w].cdLeft = left,
               ![w].held = "",
               ![w].own = Nil,
               ![w].pc = AfterLoopBody({}, left)]
    /\ UNCHANGED <<catalog, repoShares, saved, result, cocomo, effortCalls,
                   projectEstimate, calc, detailed>>

\* estimate := &domain.COCOMOEstimate{...}; estimate.CalculateEffort();
\* uc.cocomoRepo.SaveEstimate(estimate)
BuildStep(w) ==
    /\ workers[w].pc = "build"
    /\ LET estimate == CalculateEffort(NewCOCOMOEstimate(
               workers[w].input.ProjectSize, workers[w].model,
               workers[w].scaleFactors, workers[w].costDrivers))
       IN  /\ workers' = [workers EXCEPT ![w].estimate = estimate, ![w].pc = "done"]
           /\ \E saveOk \in BOOLEAN : saved' = IF saveOk THEN estimate ELSE saved
    /\ UNCHANGED <<catalog, repoShares, result, cocomo, effortCalls,
                   projectEstimate, calc, detailed>>

InitConcurrent ==
    /\ catalog = InitialCatalog
    /\ repoShares \in BOOLEAN
    /\ saved = Nil
    /\ result = NoCall
    /\ cocomo = Nil
    /\ effortCalls = 0
    /\ projectEstimate = Nil
    /\ calc = NoCalculation
    /\ detailed = Nil
    /\ workers \in {<<NewWorker(a), NewWorker(b)>> :
                       a \in WorkerInputs(1), b \in WorkerInputs(2)}

StartCall == \E w \in Workers : StartStep(w)
RateScaleFactorCall == \E w \in Workers : RateScaleFactorStep(w)
CopyScaleFactorCall == \E w \in Workers : CopyScaleFactorStep(w)
RateCostDriverCall == \E w \in Workers : RateCostDriverStep(w)
CopyCostDriverCall == \E w \in Workers : CopyCostDriverStep(w)
BuildCall == \E w \in Workers : BuildStep(w)

NextConcurrent ==
    \/ StartCall
    \/ RateScaleFactorCall
    \/ CopyScaleFactorCall
    \/ RateCostDriverCall
    \/ CopyCostDriverCall
    \/ BuildCall

SpecConcurrent == InitConcurrent /\ [][NextConcurrent]_vars

(***************************************************************************)
(* Properties of CalculateEffort, under SpecEffort.                        *)
(***************************************************************************)
Calculated == effortCalls > 0

RECURSIVE ProductOfValues(_)
ProductOfValues(cds) ==
    IF cds = <<>> THEN One ELSE RMul(Head(cds).Value, ProductOfValues(Tail(cds)))

RECURSIVE SumOfWeightedRatings(_)
SumOfWeightedRatings(sfs) ==
    IF sfs = <<>> THEN Zero
    ELSE RAdd(RMul(Head(sfs).Weight, Head(sfs).Rating), SumOfWeightedRatings(Tail(sfs)))

\* C1: for every estimate with projectSize > 0, after CalculateEffort
\* EffortPM = Model.A * ProjectSize^ExponentB * (product of the cost drivers'
\* Values), the power being real exponentiation: EffortPM divided by Model.A and
\* by the product is ProjectSize raised to ExponentB in the reals.
C1_EffortIsRealPower ==
    (Calculated /\ cocomo.ProjectSize.n > 0) =>
        IsRealPow(RDiv(RDiv(cocomo.EffortPM, cocomo.Model.A),
                       ProductOfValues(cocomo.CostDrivers)),
                  cocomo.ProjectSize, cocomo.ExponentB)

C3_ExponentFromModelAndScaleFactors ==
    Calculated =>
        /\ cocomo.ExponentB =
               RAdd(cocomo.Model.B, SumOfWeightedRatings(cocomo.ScaleFactors))
        /\ ( /\ cocomo.Model.B = Rat(91, 100)
             /\ \E i \in DOMAIN cocomo.ScaleFactors :
                  /\ cocomo.ScaleFactors[i].Weight = Rat(405, 100)
                  /\ cocomo.ScaleFactors[i].Rating = Int2R(3)
                  /\ \A j \in DOMAIN cocomo.ScaleFactors :
                       j # i => cocomo.ScaleFactors[j].Rating = Zero )
           => cocomo.ExponentB = Rat(1306, 100)

\* C3's case: the example of the claim (weight 4.05 rated 3.0, another factor
\* rated 0), calculated a second time, when ExponentB held 13.06 before the call.
C3_Witness ==
    /\ effortCalls >= 2
    /\ cocomo.Model.B = Rat(91, 100)
    /\ Len(cocomo.ScaleFactors) = 2
    /\ cocomo.ScaleFactors[1].Weight = Rat(405, 100)
    /\ cocomo.ScaleFactors[1].Rating = Int2R(3)
    /\ cocomo.ScaleFactors[2].Rating = Zero
    /\ cocomo.ExponentB = Rat(1306, 100)

\* C4: CalculateEffort sets DurationTM = 3.67 * EffortPM^D with
\* D = 0.28 + 0.2 * (ExponentB - 1.01), the power being real exponentiation:
\* DurationTM / 3.67 is EffortPM raised to D in the reals.
C4_DurationIsRealPower ==
    Calculated =>
        IsRealPow(RDiv(cocomo.DurationTM, Rat(367, 100)),
                  cocomo.EffortPM,
                  RAdd(Rat(28, 100),
                       RMul(Rat(2, 10), RSub(cocomo.ExponentB, Rat(101, 100)))))

(***************************************************************************)
(* Properties of CreateEstimate, under Spec.                               *)
(***************************************************************************)
\* C5: CreateEstimate called with ProjectSize <= 0 returns an error and a nil
\* estimate before any computation: no catalog lookup is made, CalculateEffort
\* is not run and SaveEstimate is not called.
C5_InvalidSizeRejectedFirst ==
    (result.op = "CreateEstimate" /\ result.sizeIn.n <= 0) =>
        /\ result.err = "invalid"
        /\ result.estimate = Nil
        /\ result.lookups = 0
        /\ result.calcs = 0
        /\ result.savedArg = Nil

\* C5's case: a call with a size <= 0 whose input also names an unknown id, turned
\* down without a lookup.
C5_Witness ==
    /\ result.op = "CreateEstimate"
    /\ result.sizeIn.n <= 0
    /\ result.unknownId
    /\ result.err = "invalid"
    /\ result.lookups = 0

\* C6: if the model id, or a scale-factor id or cost-driver id of the input, is
\* not in the catalog, CreateEstimate (given a valid size) fails as a whole: it
\* returns the lookup error and a nil estimate, no estimate is calculated from the
\* ids that were found, and SaveEstimate is not called.
C6_UnknownIdFailsWhole ==
    (result.op = "CreateEstimate" /\ result.sizeIn.n > 0 /\ result.unknownId) =>
        /\ result.err = "not_found"
        /\ result.estimate = Nil
        /\ result.calcs = 0
        /\ result.savedArg = Nil

\* C6's case: a call that found the model and at least two factors before it met
\* an unknown id.
C6_Witness ==
    /\ result.op = "CreateEstimate"
    /\ result.unknownId
    /\ result.err = "not_found"
    /\ result.lookups >= 4
    /\ result.savedArg = Nil


(***************************************************************************)
(* Properties of Estimate.CalculateTotalHours, under SpecProject.          *)
(***************************************************************************)
\* The last CalculateTotalHours returned nil.
Succeeded == calc.calls > 0 /\ calc.err = "none"

RECURSIVE SumOfTotalHours(_)
SumOfTotalHours(pes) ==
    IF pes = <<>> THEN Zero
    ELSE RAdd(pes[1].TotalHours, SumOfTotalHours(Tail(pes)))

\* a: the activity-based total of the estimate.
ActivityTotal == SumOfTotalHours(projectEstimate.ProcessEstimates)

\* b: EffortPM * 160 of a fresh CalculateEffort of the COCOMO II estimate
\* (CalculateEffort reads the size, the model, the ratings and the values,
\* which no calculation changes).
ParametricTotal ==
    RMul(CalculateEffort(projectEstimate.COCOMOEstimate).EffortPM, Int2R(160))

\* C7: with no COCOMO II estimate, a successful CalculateTotalHours leaves
\* TotalHours equal to the activity-based total, which is the sum of the
\* TotalHours of all process estimates.
C7_NoParametricUsesActivityTotal ==
    (Succeeded /\ projectEstimate.COCOMOEstimate = Nil) =>
        /\ projectEstimate.TotalHours = ActivityTotal
        /\ projectEstimate.TotalHours = calc.activityResult.TotalHours

\* Two process estimates with hours, under global factors, and no COCOMO II
\* estimate.
C7_Witness ==
    /\ Succeeded
    /\ projectEstimate.COCOMOEstimate = Nil
    /\ Len(projectEstimate.ProcessEstimates) = 2
    /\ projectEstimate.GlobalFactors # <<>>
    /\ \A i \in 1..2 : projectEstimate.ProcessEstimates[i].TotalHours # Zero

\* C8: with a COCOMO II estimate, a successful CalculateTotalHours leaves
\* TotalHours = a * (0.8 / 1.65) + b * (0.85 / 1.65), a the activity-based
\* total with confidence 0.8 and b = EffortPM * 160 with confidence 0.85,
\* EffortPM being that of a fresh CalculateEffort, which the estimate holds.
C8_WeightedByConfidence ==
    (Succeeded /\ projectEstimate.COCOMOEstimate # Nil) =>
        /\ projectEstimate.TotalHours =
               RAdd(RMul(ActivityTotal, Rat(80, 165)),
                    RMul(ParametricTotal, Rat(85, 165)))
        /\ calc.activityResult.TotalHours = ActivityTotal
        /\ calc.activityResult.Confidence = Rat(8, 10)
        /\ calc.cocomoResult.TotalHours = ParametricTotal
        /\ calc.cocomoResult.Confidence = Rat(85, 100)
        /\ projectEstimate.COCOMOEstimate =
               CalculateEffort(projectEstimate.COCOMOEstimate)

\* The first calculation of an estimate whose COCOMO II scale factor was
\* rated again after its last CalculateEffort, with activity hours.
C8_Witness ==
    /\ Succeeded
    /\ calc.calls = 1
    /\ projectEstimate.COCOMOEstimate # Nil
    /\ projectEstimate.COCOMOEstimate.ScaleFactors # <<>>
    /\ ActivityTotal # Zero

ActivityIDs(p) ==
    {ProcessRepo[p].Activities[k].ID : k \in DOMAIN ProcessRepo[p].Activities}

\* A process estimate of a known process holds a task whose ActivityID is
\* none of that process's activities.
HasOrphanTask(pes) ==
    \E i \in DOMAIN pes :
        /\ pes[i].Process \in DOMAIN ProcessRepo
        /\ \E j \in DOMAIN pes[i].Tasks :
               pes[i].Tasks[j].ActivityID \notin ActivityIDs(pes[i].Process)

\* C12: a task whose ActivityID matches no activity of its owning process
\* makes CalculateTotalHours fail with a not-found error, so no successful
\* calculation has computed base hours for such a task.
C12_MissingActivityFails ==
    /\ (calc.calls > 0 /\ HasOrphanTask(projectEstimate.ProcessEstimates)) =>
           calc.err = "not_found"
    /\ Succeeded =>
           \A k \in DOMAIN calc.baseHoursCalls :
               calc.baseHoursCalls[k].activity.ID = calc.baseHoursCalls[k].task.ActivityID

\* C13: a CalculateTotalHours that returns an error leaves the estimate as
\* it was: no process estimate's BaseHours or TotalHours and no TotalHours
\* of the estimate is changed.
C13_AllOrNothing ==
    [][(calc'.calls = calc.calls + 1 /\ calc'.err # "none") =>
           projectEstimate' = projectEstimate]_vars


RECURSIVE ProductOfImpacts(_)
ProductOfImpacts(factors) ==
    IF factors = <<>> THEN One
    ELSE RMul(factors[1].Impact, ProductOfImpacts(Tail(factors)))

\* The base hours of a task of process p: BaseHours * Scale *
\* (0.8 + 0.2 * Complexity) of its activity, and 0 hours when p has no such
\* activity (see C12).
TaskBaseHours(task, p) ==
    LET found == {k \in DOMAIN ProcessRepo[p].Activities :
                      ProcessRepo[p].Activities[k].ID = task.ActivityID}
    IN  IF found = {} THEN Zero
        ELSE RMul(RMul(ProcessRepo[p].Activities[CHOOSE k \in found : TRUE].BaseHours,
                       task.Scale),
                  Rat(8 + 2 * task.Complexity, 10))

RECURSIVE SumOfTaskHours(_, _)
SumOfTaskHours(tasks, p) ==
    IF tasks = <<>> THEN Zero
    ELSE RAdd(RMul(TaskBaseHours(tasks[1], p), ProductOfImpacts(tasks[1].CustomFactors)),
              SumOfTaskHours(Tail(tasks), p))

\* C14: after a successful CalculateTotalHours every process estimate has
\* BaseHours = the sum over its tasks of the task's base hours times the
\* product of the Impacts of all its custom factors, and TotalHours =
\* BaseHours times the product of the Impacts of all global factors; the
\* activity-based total is the sum of the process estimates' TotalHours.
C14_AllFactorsApplied ==
    Succeeded =>
        /\ \A i \in DOMAIN projectEstimate.ProcessEstimates :
               LET pe == projectEstimate.ProcessEstimates[i]
               IN  /\ pe.BaseHours = SumOfTaskHours(pe.Tasks, pe.Process)
                   /\ pe.TotalHours =
                          RMul(pe.BaseHours,
                               ProductOfImpacts(projectEstimate.GlobalFactors))
        /\ calc.activityResult.TotalHours = ActivityTotal

\* A process estimate of two tasks, one of them with two custom factors,
\* under two global factors.
C14_Witness ==
    /\ Succeeded
    /\ Len(projectEstimate.GlobalFactors) = 2
    /\ \E i \in DOMAIN projectEstimate.ProcessEstimates :
           LET pe == projectEstimate.ProcessEstimates[i]
           IN  /\ Len(pe.Tasks) = 2
               /\ Len(pe.Tasks[1].CustomFactors) = 2
               /\ pe.Tasks[2].ActivityID = "a1"
               /\ pe.TotalHours # pe.BaseHours
               /\ pe.BaseHours # Zero


(***************************************************************************)
(* Properties of GenerateDetailedResult, under SpecDetail.                 *)
(***************************************************************************)
\* A DetailedResult has been generated.
Generated == detailed # Nil

\* C15: GenerateDetailedResult has no side effect on the estimate: for
\* every hourly rate, ProjectSize, Model, ScaleFactors, CostDrivers,
\* ExponentB, EffortPM, DurationTM and TeamSize are the same after the call.
C15_NoSideEffects ==
    [][/\ cocomo'.ProjectSize = cocomo.ProjectSize
       /\ cocomo'.Model = cocomo.Model
       /\ cocomo'.ScaleFactors = cocomo.ScaleFactors
       /\ cocomo'.CostDrivers = cocomo.CostDrivers
       /\ cocomo'.ExponentB = cocomo.ExponentB
       /\ cocomo'.EffortPM = cocomo.EffortPM
       /\ cocomo'.DurationTM = cocomo.DurationTM
       /\ cocomo'.TeamSize = cocomo.TeamSize]_vars

\* A result generated with a positive rate for a calculated estimate with
\* scale factors and cost drivers.
C15_Witness ==
    /\ Generated
    /\ detailed.hourlyRate = Int2R(5000)
    /\ cocomo.EffortPM # Zero
    /\ cocomo.ScaleFactors # <<>>
    /\ cocomo.CostDrivers # <<>>

\* C16: the effort range is EffortPM with 0.8 and 1.2 times EffortPM, so
\* Optimistic <= Nominal <= Pessimistic; the duration range is DurationTM
\* with 0.85 and 1.15 times it, the team-size range TeamSize with 0.7 and
\* 1.3 times it.
C16_Ranges ==
    Generated =>
        LET r == detailed.result
        IN  /\ r.EffortRange.Nominal = cocomo.EffortPM
            /\ r.EffortRange.Optimistic = RMul(Rat(8, 10), cocomo.EffortPM)
            /\ r.EffortRange.Pessimistic = RMul(Rat(12, 10), cocomo.EffortPM)
            /\ RLeq(r.EffortRange.Optimistic, r.EffortRange.Nominal)
            /\ RLeq(r.EffortRange.Nominal, r.EffortRange.Pessimistic)
            /\ r.DurationRange.Nominal = cocomo.DurationTM
            /\ r.DurationRange.Optimistic = RMul(Rat(85, 100), cocomo.DurationTM)
            /\ r.DurationRange.Pessimistic = RMul(Rat(115, 100), cocomo.DurationTM)
            /\ r.TeamSizeRange.Average = cocomo.TeamSize
            /\ r.TeamSizeRange.Minimum = RMul(Rat(7, 10), cocomo.TeamSize)
            /\ r.TeamSizeRange.Maximum = RMul(Rat(13, 10), cocomo.TeamSize)

\* The ranges of an estimate of 2.94 * 2 * 1.4 person-months.
C16_Witness ==
    /\ Generated
    /\ cocomo.EffortPM = Rat(8232, 1000)
    /\ RLess(detailed.result.EffortRange.Optimistic, cocomo.EffortPM)
    /\ RLess(cocomo.EffortPM, detailed.result.EffortRange.Pessimistic)
    /\ RLess(detailed.result.DurationRange.Optimistic,
             detailed.result.DurationRange.Pessimistic)
    /\ RLess(detailed.result.TeamSizeRange.Minimum,
             detailed.result.TeamSizeRange.Maximum)

\* C17: the cost estimate is filled only if hourlyRate > 0: then TotalCost
\* = EffortPM * 160 * hourlyRate with the range 0.8 and 1.2 times it;
\* otherwise HourlyRate, TotalCost and the CostRange are all zero.
C17_CostOnlyForPositiveRate ==
    Generated =>
        LET cost == detailed.result.CostEstimate
            total == RMul(RMul(cocomo.EffortPM, Int2R(160)), detailed.hourlyRate)
        IN  IF detailed.hourlyRate.n > 0
            THEN /\ cost.HourlyRate = detailed.hourlyRate
                 /\ cost.TotalCost = total
                 /\ cost.CostRange.Nominal = total
                 /\ cost.CostRange.Minimum = RMul(Rat(8, 10), total)
                 /\ cost.CostRange.Maximum = RMul(Rat(12, 10), total)
            ELSE /\ cost.HourlyRate = Zero
                 /\ cost.TotalCost = Zero
                 /\ cost.CostRange.Minimum = Zero
                 /\ cost.CostRange.Nominal = Zero
                 /\ cost.CostRange.Maximum = Zero

\* hourlyRate 5000 and EffortPM 20: 16,000,000 in [12,800,000, 19,200,000].
C17_Witness ==
    /\ Generated
    /\ detailed.hourlyRate = Int2R(5000)
    /\ cocomo.EffortPM = Int2R(20)
    /\ detailed.result.CostEstimate.TotalCost = Int2R(16000000)
    /\ detailed.result.CostEstimate.CostRange.Minimum = Int2R(12800000)
    /\ detailed.result.CostEstimate.CostRange.Maximum = Int2R(19200000)

RECURSIVE SumOfPercents(_)
SumOfPercents(phases) ==
    IF phases = <<>> THEN Zero
    ELSE RAdd(phases[1].PercentEffort, SumOfPercents(Tail(phases)))

RECURSIVE SumOfEfforts(_)
SumOfEfforts(phases) ==
    IF phases = <<>> THEN Zero
    ELSE RAdd(phases[1].Effort, SumOfEfforts(Tail(phases)))

\* C18: the phase distribution has exactly six phases, their PercentEffort
\* sum to 1.0 and their Effort to the estimate's EffortPM.
C18_PhasesSumToWhole ==
    Generated =>
        /\ Len(detailed.result.PhaseDistribution) = 6
        /\ SumOfPercents(detailed.result.PhaseDistribution) = One
        /\ SumOfEfforts(detailed.result.PhaseDistribution) = cocomo.EffortPM

\* The six phases of 2.94 person-months, the fourth with 26% of them.
C18_Witness ==
    /\ Generated
    /\ cocomo.EffortPM = Rat(294, 100)
    /\ detailed.result.PhaseDistribution[4].Effort = Rat(7644, 10000)
    /\ detailed.result.PhaseDistribution[6].Effort = Rat(2352, 10000)

\* n: the scale factors rated above 4.0 plus the cost drivers valued above 1.3.
HighCount ==
    Cardinality({i \in DOMAIN cocomo.ScaleFactors :
                     RLess(Int2R(4), cocomo.ScaleFactors[i].Rating)})
        + Cardinality({i \in DOMAIN cocomo.CostDrivers :
                           RLess(Rat(13, 10), cocomo.CostDrivers[i].Value)})

\* C19: the risk level is "High" for n >= 3, "Medium" for n of 1 or 2 and
\* "Low" for n = 0, n counting strictly: a rating of exactly 4.0 and a
\* value of exactly 1.3 are not counted.
C19_RiskLevelByCount ==
    Generated =>
        /\ HighCount >= 3 => detailed.result.RiskLevel = "High"
        /\ HighCount \in {1, 2} => detailed.result.RiskLevel = "Medium"
        /\ HighCount = 0 => detailed.result.RiskLevel = "Low"

\* Exactly three counted among two scale factors, one rated 4.0, and four
\* cost drivers, one valued 1.3.
C19_Witness ==
    /\ Generated
    /\ HighCount = 3
    /\ detailed.result.RiskLevel = "High"
    /\ \E i \in DOMAIN cocomo.ScaleFactors : cocomo.ScaleFactors[i].Rating = Int2R(4)
    /\ \E i \in DOMAIN cocomo.CostDrivers : cocomo.CostDrivers[i].Value = Rat(13, 10)


(***************************************************************************)
(* Properties of the use case's saves, under Spec.                         *)
(***************************************************************************)
\* C20: the estimate CreateEstimate and UpdateRatings pass to SaveEstimate
\* is never stale: its ExponentB, EffortPM, DurationTM and TeamSize are
\* what CalculateEffort yields from the size, the model, the ratings and
\* the cost drivers it holds at the save.
C20_SavedIsFresh ==
    result.savedArg # Nil =>
        LET e == result.savedArg
            fresh == CalculateEffort(e)
        IN  /\ result.calcs = 1
            /\ e.ExponentB = RAdd(e.Model.B, SumOfWeightedRatings(e.ScaleFactors))
            /\ e.ExponentB = fresh.ExponentB
            /\ e.EffortPM = fresh.EffortPM
            /\ e.DurationTM = fresh.DurationTM
            /\ e.TeamSize = fresh.TeamSize

\* An UpdateRatings that rated scale factor sf1 anew (0.1, created with 1)
\* and saved the estimate.
C20_Witness ==
    /\ result.op = "UpdateRatings"
    /\ result.err = "none"
    /\ result.savedArg # Nil
    /\ \E i \in DOMAIN result.savedArg.ScaleFactors :
           /\ result.savedArg.ScaleFactors[i].ID = "sf1"
           /\ result.savedArg.ScaleFactors[i].Rating = Rat(1, 10)

(***************************************************************************)
(* Properties of concurrent CreateEstimate computations, under             *)
(* SpecConcurrent.                                                         *)
(***************************************************************************)
Finished(w) == workers # <<>> /\ workers[w].pc = "done"

\* The estimate a computation builds from its own inputs alone, its factors in
\* the order the computation visited them.
OwnRated(list, ratings) == [i \in DOMAIN list |-> [list[i] EXCEPT !.Rating = ratings[list[i].ID]]]

OwnEstimate(w) ==
    CalculateEffort(NewCOCOMOEstimate(
        workers[w].input.ProjectSize, InitialCatalog.models[workers[w].input.ModelID],
        OwnRated(workers[w].estimate.ScaleFactors, workers[w].input.ScaleFactors),
        OwnRated(workers[w].estimate.CostDrivers, workers[w].input.CostDrivers)))

\* C21: two CreateEstimate computations that run concurrently share no mutable
\* state: under every interleaving each finished estimate carries, for every
\* scale factor and cost driver, the rating its own input supplied, and its
\* derived values are those computed from its own inputs only.
C21_ComputationsIndependent ==
    \A w \in Workers : Finished(w) => workers[w].estimate = OwnEstimate(w)

(***************************************************************************)
(* Properties of the use case's effects, under Spec.                       *)
(***************************************************************************)
\* C22: CreateEstimate treats the catalog as read-only: whether the call
\* succeeds or fails, the models, scale factors and cost drivers the repository
\* holds (their Rating included) are after the call what they were before it.
C22_CatalogReadOnly == [][CreateEstimateCall => catalog' = catalog]_vars

(***************************************************************************)
(* The loops of CalculateEffort, under SpecEffort.                         *)
(***************************************************************************)
FactorCount(e) == Len(e.ScaleFactors) + Len(e.CostDrivers)

\* C23: every engine computation terminates, and no loop of it (the loop of pow
\* included) runs more iterations than the estimate has factors: the number of
\* iterations is bounded by the counts of the inputs, never by the magnitude of
\* a rating, a weight or an exponent.
C23_LoopsBoundedByCounts ==
    Calculated =>
        /\ powIterations(cocomo.ExponentB) <= FactorCount(cocomo)
        /\ powIterations(DurationD(cocomo.ExponentB)) <= FactorCount(cocomo)

(***************************************************************************)
(* Properties of the risk factors and the sensitivity analyses, under      *)
(* SpecDetail.                                                             *)
(***************************************************************************)
HighRated(e) == SelectSeq(e.ScaleFactors, LAMBDA sf : sf.Rating.n > 4 * sf.Rating.d)

HighValued(e) == SelectSeq(e.CostDrivers, LAMBDA cd : 10 * cd.Value.n > 13 * cd.Value.d)

IsLarge(e) == e.ProjectSize.n > 100 * e.ProjectSize.d

ProcessRisk(sf) ==
    [Category |-> "Process", Name |-> sf.ID, Level |-> "High",
     Impact |-> RMul(sf.Weight, sf.Rating)]

TechnicalRisk(cd) ==
    [Category |-> "Technical", Name |-> cd.ID, Level |-> "High", Impact |-> cd.Value]

\* C24: the risk factors of a detailed result are exactly: one "High" risk of
\* category "Process" and impact Weight * Rating for each scale factor rated
\* above 4.0, in list order; then one "High" risk of category "Technical" and
\* impact Value for each cost driver valued above 1.3, in list order; then one
\* "Medium" large-project risk if and only if ProjectSize > 100.
C24_RiskFactorsListed ==
    Generated =>
        LET risks == detailed.result.RiskFactors
            sfs == HighRated(cocomo)
            cds == HighValued(cocomo)
            high == [i \in DOMAIN sfs |-> ProcessRisk(sfs[i])]
                        \o [i \in DOMAIN cds |-> TechnicalRisk(cds[i])]
        IN  /\ Len(risks) = Len(high) + (IF IsLarge(cocomo) THEN 1 ELSE 0)
            /\ SubSeq(risks, 1, Len(high)) = high
            /\ IsLarge(cocomo) => risks[Len(risks)].Level = "Medium"

C24_Witness ==
    /\ Generated
    /\ IsLarge(cocomo)
    /\ Len(HighRated(cocomo)) = 2
    /\ Len(HighValued(cocomo)) = 2
    /\ Len(cocomo.CostDrivers) = 4
    /\ Len(detailed.result.RiskFactors) = 5

Recommended(analysis) == analysis.Recommendation # ""

C26_BaseEffortIsNominal ==
    Generated =>
        /\ IsRealPow(RDiv(detailed.result.BaseEffort, cocomo.Model.A),
                     cocomo.ProjectSize, cocomo.Model.B)
        /\ detailed.result.AdjustedEffort = cocomo.EffortPM

(***************************************************************************)
(* Properties of UpdateRatings and of the iteration order, under Spec.     *)
(***************************************************************************)
Derived(e) == <<e.ExponentB, e.EffortPM, e.DurationTM, e.TeamSize>>

\* A step is the UpdateRatings call of this input on the stored estimate.
Updates(input) ==
    /\ result'.op = "UpdateRatings"
    /\ input.EstimateID = "e1"
    /\ saved # Nil
    /\ UpdateRatings(input)

\* C27: an UpdateRatings call whose input changes cost-driver ratings only
\* leaves ExponentB, EffortPM, DurationTM and TeamSize of the estimate what
\* they were, and the Value of every cost driver what it was: no Value is
\* derived from a Rating, by UpdateRatings or by CreateEstimate.
C27_CostDriverRatingsInert ==
    [][/\ \A input \in UpdateRatingsInputs :
              (Updates(input) /\ DOMAIN input.ScaleFactors = {}) =>
                  /\ Derived(result'.savedArg) = Derived(saved)
                  /\ \A i \in DOMAIN saved.CostDrivers :
                         result'.savedArg.CostDrivers[i].Value = saved.CostDrivers[i].Value
       /\ (result'.op = "CreateEstimate" /\ result'.savedArg # Nil) =>
              \A i \in DOMAIN result'.savedArg.CostDrivers :
                  LET cd == result'.savedArg.CostDrivers[i]
                  IN  cd.Value = InitialCatalog.costDrivers[cd.ID].Value
      ]_vars

\* C27's case: an estimate created with sf1 rated 1, sf2 rated 0.1 and cd2 rated
\* 2, whose cd2 alone was then rated 4.
C27_Witness ==
    /\ result.op = "UpdateRatings"
    /\ result.err = "none"
    /\ Len(result.estimate.ScaleFactors) = 2
    /\ \A i \in 1..2 : result.estimate.ScaleFactors[i].Rating
                           \in CreateRatings[result.estimate.ScaleFactors[i].ID]
    /\ Len(result.estimate.CostDrivers) = 1
    /\ result.estimate.CostDrivers[1].Rating = Int2R(4)

\* The factors of a list, those the ratings name given their rating.
Renamed(list, ratings) ==
    [i \in DOMAIN list |->
        [ID |-> list[i].ID,
         Rating |-> IF \E id \in DOMAIN ratings : id = list[i].ID
                    THEN ratings[list[i].ID] ELSE list[i].Rating]]

Ratings(list) == [i \in DOMAIN list |-> [ID |-> list[i].ID, Rating |-> list[i].Rating]]

Unrated(list) == [i \in DOMAIN list |-> [list[i] EXCEPT !.Rating = Zero]]

\* C28: UpdateRatings on a stored estimate changes the rating of exactly the
\* scale factors and cost drivers whose ID the input maps name, to the rating
\* given; an id that matches no factor of the estimate is ignored without an
\* error; no factor is added, removed or otherwise changed; the estimate is
\* calculated once and handed to SaveEstimate.
C28_ExactlyNamedRatingsChange ==
    [][\A input \in UpdateRatingsInputs :
           Updates(input) =>
               LET e == result'.savedArg
               IN  /\ result'.err \in {"none", "save_failed"}
                   /\ result'.calcs = 1
                   /\ e # Nil
                   /\ result'.err = "none" => saved' = e /\ result'.estimate = e
                   /\ Ratings(e.ScaleFactors) = Renamed(saved.ScaleFactors, input.ScaleFactors)
                   /\ Ratings(e.CostDrivers) = Renamed(saved.CostDrivers, input.CostDrivers)
                   /\ Unrated(e.ScaleFactors) = Unrated(saved.ScaleFactors)
                   /\ Unrated(e.CostDrivers) = Unrated(saved.CostDrivers)
                   /\ e.Model = saved.Model
                   /\ e.ProjectSize = saved.ProjectSize
      ]_vars

\* C28's case: an update that named an id the estimate does not hold, and
\* succeeded on an estimate that keeps a rating CreateEstimate gave.
C28_Witness ==
    /\ result.op = "UpdateRatings"
    /\ result.unknownId
    /\ result.err = "none"
    /\ saved = result.estimate
    /\ Len(saved.ScaleFactors) = 1
    /\ saved.ScaleFactors[1].Rating \in CreateRatings[saved.ScaleFactors[1].ID]
    /\ Len(saved.CostDrivers) = 1
    /\ saved.CostDrivers[1].Rating = Int2R(4)

IDsOf(list) == {list[i].ID : i \in DOMAIN list}

\* The factors of a list in the order a range loop visiting the ids in this
\* order appends them.
Reordered(list, order) ==
    [i \in DOMAIN order |-> list[CHOOSE j \in DOMAIN list : list[j].ID = order[i]]]

HighListed ==
    Cardinality({i \in DOMAIN detailed.result.RiskFactors :
                     detailed.result.RiskFactors[i].Level = "High"})

\* C30: in every detailed result the number of "High" risk factors listed is
\* the count the risk level is assessed from, so the level is "Low" exactly
\* when no "High" risk is listed, "Medium" for one or two and "High" for
\* three or more; the "Medium" large-project risk is not counted.
C30_LevelAgreesWithList ==
    Generated =>
        /\ HighListed = HighCount
        /\ detailed.result.RiskLevel = "Low" <=> HighListed = 0
        /\ detailed.result.RiskLevel = "Medium" <=> HighListed \in {1, 2}
        /\ detailed.result.RiskLevel = "High" <=> HighListed >= 3

\* C30's case: a large project with no high rating or value: the level is "Low"
\* and the list is not empty.
C30_Witness ==
    /\ Generated
    /\ detailed.result.RiskLevel = "Low"
    /\ Len(detailed.result.RiskFactors) = 1
    /\ detailed.result.RiskFactors[1].Level = "Medium"
    /\ Len(cocomo.ScaleFactors) + Len(cocomo.CostDrivers) >= 2

====
